---- MODULE Spec2Model ----
(***************************************************************************)
(* Model of the podcast-digest scripts.                                    *)
(*   scripts/fetch_podcasts.py         the Fetcher  (specification Spec)    *)
(*   scripts/prepare_digest_chunks.py  the Chunker  (specification          *)
(*                                     SpecChunk)                           *)
(*                                                                         *)
(* Python strings are modelled as sequences of pieces.  A piece            *)
(* [src, lo, hi] is the run of characters lo..hi-1 of the text named src;  *)
(* a literal (a marker, a space, a tag) is a piece of its own covering the *)
(* whole literal.  Lengths, slices and concatenations are computed on the  *)
(* pieces with Python's rules, so the program's real thresholds are used.  *)
(***************************************************************************)
EXTENDS Integers, Sequences, FiniteSets, TLC

(* ------------------------------------------------------------------ *)
(* Model bounds                                                        *)
(* ------------------------------------------------------------------ *)
\* longest playlist response the provider returns in the model
MaxItems == 2
\* longest episode list handed to the chunker in the model
MaxEpisodes == 2

(* ------------------------------------------------------------------ *)
(* Python values                                                       *)
(* ------------------------------------------------------------------ *)
\* Optional[str]: None, or a string
None == [isNone |-> TRUE, str |-> <<>>]
Some(s) == [isNone |-> FALSE, str |-> s]

Piece(src, n) == [src |-> src, lo |-> 0, hi |-> n]
Str(src, n) == IF n = 0 THEN <<>> ELSE <<Piece(src, n)>>

RECURSIVE StrLen(_)
StrLen(s) == IF s = <<>> THEN 0 ELSE (s[1].hi - s[1].lo) + StrLen(Tail(s))

Min(a, b) == IF a < b THEN a ELSE b
Max(a, b) == IF a > b THEN a ELSE b

\* characters [from, to) of s, for 0 <= from and to <= len(s)
RECURSIVE Cut(_, _, _)
Cut(s, from, to) ==
    IF s = <<>> \/ from >= to THEN <<>>
    ELSE LET n == s[1].hi - s[1].lo
             a == Max(from, 0)
             b == Min(to, n)
             rest == Cut(Tail(s), Max(from - n, 0), to - n)
         IN  IF a < b
             THEN <<[src |-> s[1].src, lo |-> s[1].lo + a, hi |-> s[1].lo + b]>> \o rest
             ELSE rest

\* Python's index normalisation of a slice bound: negative counts from the end
SliceIndex(i, n) == IF i < 0 THEN Max(n + i, 0) ELSE Min(i, n)

\* s[start:stop]
Slice(s, start, stop) ==
    Cut(s, SliceIndex(start, StrLen(s)), SliceIndex(stop, StrLen(s)))
\* s[:stop]
SliceTo(s, stop) == Cut(s, 0, SliceIndex(stop, StrLen(s)))
\* s[start:]
SliceFrom(s, start) == Cut(s, SliceIndex(start, StrLen(s)), StrLen(s))

\* str.lower() on the literals that occur
LowerTok(t) == IF t \in {"#Shorts", "#SHORTS", "#shorts"} THEN "#shorts" ELSE t
Lower(s) == [i \in 1..Len(s) |-> [s[i] EXCEPT !.src = LowerTok(@)]]

\* `tok in s` for a literal tok of length n
Contains(s, tok, n) ==
    \E i \in 1..Len(s) : s[i].src = tok /\ s[i].lo = 0 /\ s[i].hi = n

\* dict.get(key, default)
Get(d, key, default) == IF key \in DOMAIN d THEN d[key] ELSE default

(* ------------------------------------------------------------------ *)
(* Fetcher: configuration and provider inputs                          *)
(* ------------------------------------------------------------------ *)
\* two entries of CHANNELS: one resolved by handle, one carrying its channel_id
CHANNELS == <<
    [name |-> "Acquired / ACQ2", handle |-> "AcquiredFM"],
    [name |-> "The Logan Bartlett Show", channel_id |-> "UCugS0jD5IAdoqzjaNYzns7w"] >>

\* clock, in hours: the instant of the call (UTC) and the machine's UTC offsets
NowUTC == 1000
LocalOffsets == {-5, 0}
HoursPerDay == 24
\* --days and --max-per-channel are parsed with type=int: any integer is accepted
DaysArgs == {7}
CapArgs == {0, 1, 2}

ShortsTagLen == 7
ShortsPathLen == 8
MinTitleLen == 10
DescriptionLimit == 500
PageCeiling == 50

\* publishedAt as the provider sends it ("...Z"): parsable or not, and the
\* wall-clock reading with its UTC offset
PublishedAt(ok, wall) == [iso |-> ok, wall |-> wall, off |-> 0]

LongTitle == Str("title", 18)
PlainDescription == Str("description", 600)

\* the playlist entries the provider can send, by kind
ItemOfKind(kind, vid) ==
    LET base == [video_id |-> vid, title |-> LongTitle,
                 published_at |-> PublishedAt(TRUE, NowUTC - 1),
                 description |-> PlainDescription]
    IN  CASE kind = "recent"     -> base
          [] kind = "edge"       -> [base EXCEPT !.published_at = PublishedAt(TRUE, NowUTC - 7 * HoursPerDay - 3)]
          [] kind = "old"        -> [base EXCEPT !.published_at = PublishedAt(TRUE, NowUTC - 400)]
          [] kind = "baddate"    -> [base EXCEPT !.published_at = PublishedAt(FALSE, 0)]
          [] kind = "shorts"     -> [base EXCEPT !.title = LongTitle \o <<Piece(" ", 1), Piece("#Shorts", ShortsTagLen)>>]
          [] kind = "shortsdesc" -> [base EXCEPT !.description = Str("description", 20) \o <<Piece("#SHORTS", ShortsTagLen)>>]
          [] kind = "shortspath" -> [base EXCEPT !.description = Str("description", 20) \o <<Piece("/shorts/", ShortsPathLen)>>]
          [] kind = "tiny"       -> [base EXCEPT !.title = Str("title", 9)]

ItemKinds == {"recent", "edge", "old", "baddate", "shorts", "shortsdesc", "shortspath", "tiny"}

\* a playlist response: the entries in provider order; video ids are unique
Responses(ci) ==
    UNION { { [i \in 1..n |-> ItemOfKind(k[i], 10 * ci + i)] : k \in [1..n -> ItemKinds] }
            : n \in 0..MaxItems }

\* what the playlistItems call can answer to a request for `requested` entries:
\* an error, or a page of at most `requested` entries (for a request of 0 or
\* fewer entries the provider's answer is not pinned down: any page)
ProviderPages(ci, requested) ==
    { [error |-> FALSE, items |-> r] :
        r \in { x \in Responses(ci) : requested >= 1 => Len(x) <= requested } }
    \cup { [error |-> TRUE, items |-> <<>>] }

\* what the transcript provider can answer: snippets, or an exception
SpeechSnippets == << Str("speech", 40), <<Piece("[Music]", 7)>>, Str("speech", 30) >>
MusicSnippets == << <<Piece("[MUSIC]", 7)>>, <<Piece(" ", 1)>>, <<Piece("[Applause]", 10)>> >>
TranscriptAnswer(kind) ==
    CASE kind = "text"     -> [raised |-> FALSE, snippets |-> SpeechSnippets, error_name |-> <<>>]
      [] kind = "music"    -> [raised |-> FALSE, snippets |-> MusicSnippets, error_name |-> <<>>]
      [] kind = "absent"   -> [raised |-> TRUE, snippets |-> <<>>,
                               error_name |-> <<Piece("NoTranscript", 12), Piece("Found", 5)>>]
      [] kind = "disabled" -> [raised |-> TRUE, snippets |-> <<>>,
                               error_name |-> <<Piece("TranscriptsDisabled", 19)>>]
      [] kind = "blocked"  -> [raised |-> TRUE, snippets |-> <<>>,
                               error_name |-> <<Piece("RequestBlocked", 14)>>]
TranscriptKinds == {"text", "music", "absent", "disabled", "blocked"}

\* what the search and channels calls can answer
LookupAnswers == {"found", "empty", "error"}

(* ------------------------------------------------------------------ *)
(* Fetcher: functions                                                  *)
(* ------------------------------------------------------------------ *)
get_channel_id(answer, handle) ==
    IF answer = "found" THEN Some(<<Piece(handle, 24)>>) ELSE None

get_uploads_playlist_id(answer, channel_id) ==
    IF answer = "found" THEN Some(<<Piece("UU", 2)>> \o channel_id.str) ELSE None

Video(item) ==
    [video_id |-> item.video_id,
     title |-> item.title,
     published_at |-> item.published_at,
     description |-> SliceTo(item.description, DescriptionLimit),
     url |-> <<"https://www.youtube.com/watch?v=", item.video_id>>]

\* the for loop of get_recent_videos from entry i on, with `videos` kept so far
RECURSIVE KeepLoop(_, _, _, _, _)
KeepLoop(items, i, videos, cutoff_date, max_results) ==
    IF i > Len(items) THEN videos
    ELSE LET item == items[i]
             next == KeepLoop(items, i + 1, videos, cutoff_date, max_results)
             kept == Append(videos, Video(item))
         IN  IF ~item.published_at.iso THEN next
             ELSE IF item.published_at.wall < cutoff_date THEN next
             ELSE IF \/ Contains(Lower(item.title), "#shorts", ShortsTagLen)
                     \/ Contains(Lower(item.description), "#shorts", ShortsTagLen) THEN next
             ELSE IF Contains(item.description, "/shorts/", ShortsPathLen) THEN next
             ELSE IF StrLen(item.title) < MinTitleLen THEN next
             ELSE IF Len(kept) >= max_results THEN kept
             ELSE KeepLoop(items, i + 1, kept, cutoff_date, max_results)

\* the page size get_recent_videos asks for
RequestedResults(max_results) == Min(max_results * 2, PageCeiling)

\* now_local is datetime.now(): the local wall clock, naive
get_recent_videos(page, now_local, days, max_results) ==
    IF page.error THEN <<>>
    ELSE KeepLoop(page.items, 1, <<>>, now_local - days * HoursPerDay, max_results)

\* " ".join(snippet texts)
RECURSIVE JoinSnippets(_)
JoinSnippets(snips) ==
    IF snips = <<>> THEN <<>>
    ELSE IF Len(snips) = 1 THEN snips[1]
    ELSE snips[1] \o <<Piece(" ", 1)>> \o JoinSnippets(Tail(snips))

IsMarker(p) == p.src \in {"[Music]", "[MUSIC]", "[music]", "[Applause]", "[APPLAUSE]", "[applause]"}
IsSpace(p) == p.src = " "

\* re.sub(r'\s+', ' ', text): every run of whitespace becomes one space
RECURSIVE CollapseSpaces(_, _)
CollapseSpaces(s, after_space) ==
    IF s = <<>> THEN <<>>
    ELSE IF IsSpace(s[1])
         THEN IF after_space THEN CollapseSpaces(Tail(s), TRUE)
              ELSE <<Piece(" ", 1)>> \o CollapseSpaces(Tail(s), TRUE)
         ELSE <<s[1]>> \o CollapseSpaces(Tail(s), FALSE)

\* str.strip()
RECURSIVE StripLeft(_)
StripLeft(s) == IF s # <<>> /\ IsSpace(s[1]) THEN StripLeft(Tail(s)) ELSE s
RECURSIVE StripRight(_)
StripRight(s) ==
    IF s # <<>> /\ IsSpace(s[Len(s)]) THEN StripRight(SubSeq(s, 1, Len(s) - 1)) ELSE s
Strip(s) == StripRight(StripLeft(s))

CleanTranscript(snippets) ==
    Strip(CollapseSpaces(SelectSeq(JoinSnippets(snippets), LAMBDA p : ~IsMarker(p)), FALSE))

get_transcript(answer) ==
    IF ~answer.raised THEN Some(CleanTranscript(answer.snippets))
    ELSE IF \/ Contains(answer.error_name, "NoTranscript", 12)
            \/ Contains(answer.error_name, "TranscriptsDisabled", 19)
         THEN None
         ELSE None

\* truth value of an Optional[str]: None and "" are false
Truthy(opt) == ~opt.isNone /\ opt.str # <<>>

\* a variant that stores whatever get_transcript returned in both branches
EpisodeRecordKeepsText(name, video, transcript) ==
    [podcast |-> name, title |-> video.title, video_id |-> video.video_id,
     url |-> video.url, published_at |-> video.published_at,
     description |-> video.description,
     transcript |-> transcript, has_transcript |-> Truthy(transcript)]

\* the record fetch_all_podcasts appends for a video
EpisodeRecord(name, video, transcript) ==
    IF Truthy(transcript)
    THEN [podcast |-> name, title |-> video.title, video_id |-> video.video_id,
          url |-> video.url, published_at |-> video.published_at,
          description |-> video.description,
          transcript |-> transcript, has_transcript |-> TRUE]
    ELSE [podcast |-> name, title |-> video.title, video_id |-> video.video_id,
          url |-> video.url, published_at |-> video.published_at,
          description |-> video.description,
          transcript |-> None, has_transcript |-> FALSE]

(* ------------------------------------------------------------------ *)
(* Fetcher: fetch_all_podcasts as a state machine                      *)
(* ------------------------------------------------------------------ *)
VARIABLES
    now_off,          \* the machine's UTC offset (hours)
    days_back,        \* --days
    max_per_channel,  \* --max-per-channel
    pc,               \* "channel", "playlist", "videos", "transcripts", "done"
    ci,               \* index in CHANNELS of the channel being processed
    channel_id,       \* Optional[str]
    playlist_id,      \* Optional[str]
    page,             \* the playlist page just answered by the provider
    videos,           \* the list get_recent_videos returned
    vi,               \* index in videos of the video being processed
    all_episodes,     \* the result list
    history,          \* per finished channel: what became of it
    answers           \* per episode record: the transcript provider's answer

fetch_vars == <<now_off, days_back, max_per_channel, pc, ci, channel_id, playlist_id,
                page, videos, vi, all_episodes, history, answers>>

\* the Chunker's state
VARIABLES
    files,      \* the output directory: file name -> content
    episodes,   \* the input of the latest run
    written,    \* the names of the files the latest run wrote
    ran         \* whether a run has completed

chunk_vars == <<files, episodes, written, ran>>
vars == <<fetch_vars, chunk_vars>>

NoPage == [error |-> FALSE, items |-> <<>>]
NowLocal == NowUTC + now_off

FetchInit ==
    /\ now_off \in LocalOffsets
    /\ days_back \in DaysArgs
    /\ max_per_channel \in CapArgs
    /\ pc = "channel"
    /\ ci = 1
    /\ channel_id = None
    /\ playlist_id = None
    /\ page = NoPage
    /\ videos = <<>>
    /\ vi = 1
    /\ all_episodes = <<>>
    /\ history = <<>>
    /\ answers = <<>>

\* a variant that leaves the loop when a channel fails
NextChannelOrStop(status, kept) ==
    /\ history' = Append(history, [name |-> CHANNELS[ci].name, status |-> status, kept |-> kept])
    /\ ci' = ci + 1
    /\ pc' = IF status # "listed" \/ ci + 1 > Len(CHANNELS) THEN "done" ELSE "channel"
    /\ channel_id' = None
    /\ playlist_id' = None
    /\ videos' = <<>>
    /\ vi' = 1

\* `continue` / end of the loop body: on to the next channel, or return
NextChannel(status, kept) ==
    /\ history' = Append(history, [name |-> CHANNELS[ci].name, status |-> status, kept |-> kept])
    /\ ci' = ci + 1
    /\ pc' = IF ci + 1 > Len(CHANNELS) THEN "done" ELSE "channel"
    /\ channel_id' = None
    /\ playlist_id' = None
    /\ videos' = <<>>
    /\ vi' = 1

\* lines 251-259: the channel's id, from the configuration or the search call
ResolveChannel ==
    /\ pc = "channel"
    /\ page' = NoPage
    /\ \E answer \in LookupAnswers :
         LET id == IF "channel_id" \in DOMAIN CHANNELS[ci]
                   THEN Some(<<Piece(CHANNELS[ci].channel_id, 24)>>)
                   ELSE get_channel_id(answer, CHANNELS[ci].handle)
         IN  IF ~Truthy(id)
             THEN /\ NextChannel("no_channel", <<>>)
                  /\ UNCHANGED <<all_episodes, answers>>
             ELSE /\ channel_id' = id
                  /\ pc' = "playlist"
                  /\ UNCHANGED <<ci, playlist_id, videos, vi, all_episodes, history, answers>>
    /\ UNCHANGED <<now_off, days_back, max_per_channel>>
    /\ UNCHANGED chunk_vars

\* lines 261-265: the uploads playlist
ResolvePlaylist ==
    /\ pc = "playlist"
    /\ \E answer \in LookupAnswers :
         LET id == get_uploads_playlist_id(answer, channel_id)
         IN  IF ~Truthy(id)
             THEN /\ NextChannel("no_playlist", <<>>)
                  /\ UNCHANGED <<all_episodes, answers>>
             ELSE /\ playlist_id' = id
                  /\ pc' = "videos"
                  /\ UNCHANGED <<ci, channel_id, videos, vi, all_episodes, history, answers>>
    /\ UNCHANGED <<now_off, days_back, max_per_channel, page>>
    /\ UNCHANGED chunk_vars

\* lines 267-272: the recent videos of the playlist
ListVideos ==
    /\ pc = "videos"
    /\ \E p \in ProviderPages(ci, RequestedResults(max_per_channel)) :
         LET vs == get_recent_videos(p, NowLocal, days_back, max_per_channel)
         IN  /\ page' = p
             /\ IF vs = <<>>
                THEN /\ NextChannel(IF p.error THEN "listing_error" ELSE "listed", <<>>)
                     /\ UNCHANGED <<all_episodes, answers>>
                ELSE /\ videos' = vs
                     /\ vi' = 1
                     /\ pc' = "transcripts"
                     /\ UNCHANGED <<ci, channel_id, playlist_id, all_episodes, history, answers>>
    /\ UNCHANGED <<now_off, days_back, max_per_channel>>
    /\ UNCHANGED chunk_vars

\* lines 275-303: one round of the loop over the videos
FetchTranscript ==
    /\ pc = "transcripts"
    /\ page' = NoPage
    /\ \E kind \in TranscriptKinds :
         LET transcript == get_transcript(TranscriptAnswer(kind))
         IN  /\ all_episodes' = Append(all_episodes,
                                       EpisodeRecord(CHANNELS[ci].name, videos[vi], transcript))
             /\ answers' = Append(answers, kind)
    /\ IF vi + 1 > Len(videos)
       THEN NextChannel("listed", [i \in 1..Len(videos) |-> videos[i].video_id])
       ELSE /\ vi' = vi + 1
            /\ UNCHANGED <<pc, ci, channel_id, playlist_id, videos, history>>
    /\ UNCHANGED <<now_off, days_back, max_per_channel>>
    /\ UNCHANGED chunk_vars

(* ------------------------------------------------------------------ *)
(* Chunker: prepare_chunks                                             *)
(* ------------------------------------------------------------------ *)
FullThreshold == 5000
CondenseThreshold == 50000
HeadLen == 20000
MiddleHalf == 10000
TailLen == 10000
TitlePrefix == 80

\* "\n\n[...MIDDLE SECTION OMITTED...]\n\n" and "\n\n[...SECTION OMITTED...]\n\n"
MiddleMarker == <<Piece("[...MIDDLE SECTION OMITTED...]", 34)>>
SectionMarker == <<Piece("[...SECTION OMITTED...]", 27)>>

\* file names, in three parts: stem, the formatted rank, tail
RECURSIVE Digits(_)
Digits(n) == IF n < 10 THEN <<n>> ELSE Append(Digits(n \div 10), n % 10)
\* f"{idx:02d}"
Format02d(idx) == IF idx < 10 THEN <<0, idx>> ELSE Digits(idx)

\* the rank a file name carries
RECURSIVE DigitsValue(_)
DigitsValue(ds) == IF ds = <<>> THEN 0 ELSE 10 * DigitsValue(SubSeq(ds, 1, Len(ds) - 1)) + ds[Len(ds)]
RankOf(name) == DigitsValue(name.rank)

EpisodeFile(idx) == [stem |-> "episode_", rank |-> Format02d(idx), tail |-> "_full.json"]
QuickHitsFile == [stem |-> "quick_hits_all", rank |-> <<>>, tail |-> ".json"]
MetadataFile == [stem |-> "_metadata", rank |-> <<>>, tail |-> ".json"]

\* a variant whose pattern matches none of the files the chunker writes
GlobEpisodeText(name) == name.stem = "episode_" /\ name.tail \in {".txt", "_full.txt"}

\* glob("episode_*.json")
GlobEpisode(name) == name.stem = "episode_" /\ name.tail \in {".json", "_full.json"}

\* lines 22-24: the directory without the files the glob matches
CleanOldFiles(dir) == [n \in {m \in DOMAIN dir : ~GlobEpisode(m)} |-> dir[n]]

\* len(ep.get('transcript', ''))
TranscriptLen(ep) == StrLen(Get(ep, "transcript", Some(<<>>)).str)

\* a variant with a strict threshold
IsFullStrict(ep) == Get(ep, "has_transcript", FALSE) /\ TranscriptLen(ep) > FullThreshold

\* lines 30-38
IsFull(ep) == Get(ep, "has_transcript", FALSE) /\ TranscriptLen(ep) >= FullThreshold
IsQuickHit(ep) ==
    /\ Get(ep, "has_transcript", FALSE)
    /\ ~IsFull(ep)
    /\ TranscriptLen(ep) > 0

\* list.sort(key=len(transcript), reverse=True): stable, longest first
RECURSIVE InsertByLength(_, _)
InsertByLength(sorted, ep) ==
    IF sorted = <<>> THEN <<ep>>
    ELSE IF TranscriptLen(sorted[1]) >= TranscriptLen(ep)
         THEN <<sorted[1]>> \o InsertByLength(Tail(sorted), ep)
         ELSE <<ep>> \o sorted
RECURSIVE SortByLength(_)
SortByLength(eps) ==
    IF eps = <<>> THEN <<>>
    ELSE InsertByLength(SortByLength(SubSeq(eps, 1, Len(eps) - 1)), eps[Len(eps)])

\* a variant whose middle window starts at the midpoint
CondenseFromMidpoint(transcript) ==
    LET transcript_len == StrLen(transcript)
    IN  SliceTo(transcript, HeadLen)
        \o MiddleMarker
        \o Slice(transcript, transcript_len \div 2, transcript_len \div 2 + 2 * MiddleHalf)
        \o SectionMarker
        \o SliceFrom(transcript, -TailLen)

\* lines 62-68
Condense(transcript) ==
    LET transcript_len == StrLen(transcript)
    IN  SliceTo(transcript, HeadLen)
        \o MiddleMarker
        \o Slice(transcript, transcript_len \div 2 - MiddleHalf, transcript_len \div 2 + MiddleHalf)
        \o SectionMarker
        \o SliceFrom(transcript, -TailLen)

\* lines 56-76: what is written for a full episode
EpisodeData(ep) ==
    LET transcript == Get(ep, "transcript", Some(<<>>)).str
        transcript_len == StrLen(transcript)
    IN  IF transcript_len > CondenseThreshold
        THEN [k \in DOMAIN ep \cup {"transcript_original_length", "transcript", "note"} |->
                CASE k = "transcript_original_length" -> transcript_len
                  [] k = "transcript" -> Some(Condense(transcript))
                  [] k = "note" -> <<"Transcript condensed from ", transcript_len, " to ~50K chars">>
                  [] OTHER -> ep[k]]
        ELSE ep

\* lines 84-90
FullSummary(idx, ep) ==
    [file |-> EpisodeFile(idx),
     title |-> SliceTo(Get(ep, "title", Str("Untitled", 8)), TitlePrefix),
     podcast |-> Get(ep, "podcast_name", "Unknown"),
     length |-> TranscriptLen(ep),
     url |-> Get(ep, "url", <<>>)]

\* lines 99-104
QuickSummary(ep) ==
    [title |-> SliceTo(Get(ep, "title", Str("Untitled", 8)), TitlePrefix),
     podcast |-> Get(ep, "podcast_name", "Unknown"),
     length |-> TranscriptLen(ep),
     url |-> Get(ep, "url", <<>>)]

\* lines 45-51, 84-104: the metadata record
Metadata(eps, full_episodes, quick_hits) ==
    [total_episodes |-> Len(eps),
     full_episodes_count |-> Len(full_episodes),
     quick_hits_count |-> Len(quick_hits),
     full_episodes |-> [i \in 1..Len(full_episodes) |-> FullSummary(i, full_episodes[i])],
     quick_hits |-> [i \in 1..Len(quick_hits) |-> QuickSummary(quick_hits[i])]]

\* lines 78-82, 93-96, 107-108: the files one run writes, by name
WrittenFiles(eps) ==
    LET full_episodes == SortByLength(SelectSeq(eps, IsFull))
        quick_hits == SortByLength(SelectSeq(eps, IsQuickHit))
        names == {EpisodeFile(i) : i \in 1..Len(full_episodes)}
                 \cup (IF quick_hits # <<>> THEN {QuickHitsFile} ELSE {})
                 \cup {MetadataFile}
    IN  [n \in names |->
            IF n = MetadataFile THEN Metadata(eps, full_episodes, quick_hits)
            ELSE IF n = QuickHitsFile THEN quick_hits
            ELSE EpisodeData(full_episodes[RankOf(n)])]

\* the directory after a run: old files the glob spared, then the writes
DirectoryAfter(dir, new) ==
    LET kept == CleanOldFiles(dir)
    IN  [n \in DOMAIN kept \cup DOMAIN new |-> IF n \in DOMAIN new THEN new[n] ELSE kept[n]]

\* the chunker's input: a list of episode records as the Fetcher writes them
TranscriptLengths == {4999, 5000, 50000, 50001, 60001}
FetchedTranscripts ==
    {get_transcript(TranscriptAnswer("absent"))}
    \cup {Some(Str("transcript", n)) : n \in TranscriptLengths \cup {0}}
\* the first episode comes from the first channel, the later ones from the second
PodcastOf(i) == CHANNELS[Min(i, Len(CHANNELS))].name
EpisodeLists ==
    UNION { { [i \in 1..n |-> EpisodeRecord(PodcastOf(i), Video(ItemOfKind("recent", i)), tr[i])] :
                tr \in [1..n -> FetchedTranscripts] }
            : n \in 0..MaxEpisodes }


NoFiles == [n \in {} |-> <<>>]

ChunkInit ==
    /\ files = NoFiles
    /\ episodes = <<>>
    /\ written = {}
    /\ ran = FALSE

\* one completed run of prepare_chunks on eps into the directory
PrepareChunks ==
    \E eps \in EpisodeLists :
        LET new == WrittenFiles(eps)
        IN  /\ episodes' = eps
            /\ files' = DirectoryAfter(files, new)
            /\ written' = DOMAIN new
            /\ ran' = TRUE
            /\ UNCHANGED fetch_vars

(* ------------------------------------------------------------------ *)
(* Specifications                                                      *)
(* ------------------------------------------------------------------ *)
\* the Fetcher
Init == FetchInit /\ ChunkInit
Next == ResolveChannel \/ ResolvePlaylist \/ ListVideos \/ FetchTranscript
Spec == Init /\ [][Next]_vars

\* the Chunker, run any number of times into one directory
FetchIdle ==
    /\ now_off = 0 /\ days_back = 7 /\ max_per_channel = 5
    /\ pc = "done" /\ ci = 1 /\ channel_id = None /\ playlist_id = None
    /\ page = NoPage /\ videos = <<>> /\ vi = 1
    /\ all_episodes = <<>> /\ history = <<>> /\ answers = <<>>
InitChunk == FetchIdle /\ ChunkInit
NextChunk == PrepareChunks
SpecChunk == InitChunk /\ [][NextChunk]_vars

(* ------------------------------------------------------------------ *)
(* Properties of the Fetcher (specification Spec)                      *)
(* ------------------------------------------------------------------ *)
\* the first n elements of a sequence (none for n <= 0)
Take(seq, n) == SubSeq(seq, 1, Min(Len(seq), Max(n, 0)))

\* the filter of the recent-video step, entry by entry
PassesFilter(item) ==
    /\ item.published_at.iso
    /\ item.published_at.wall >= NowLocal - days_back * HoursPerDay
    /\ ~Contains(Lower(item.title), "#shorts", ShortsTagLen)
    /\ ~Contains(Lower(item.description), "#shorts", ShortsTagLen)
    /\ ~Contains(item.description, "/shorts/", ShortsPathLen)
    /\ StrLen(item.title) >= MinTitleLen

VideoIds(vs) == [i \in 1..Len(vs) |-> vs[i].video_id]

\* C6: every episode record of the result has has_transcript equal to
\* (transcript is not null), whatever the transcript provider answered.
HasTranscriptConsistent ==
    \A i \in 1..Len(all_episodes) :
        all_episodes[i].has_transcript = ~all_episodes[i].transcript.isNone

\* C6 witness: a finished fetch whose records cover text, text that is empty
\* after cleaning, an absent transcript and another provider error.
HasTranscriptWitness ==
    /\ pc = "done"
    /\ \E i \in 1..Len(answers) : answers[i] = "text" /\ all_episodes[i].has_transcript
    /\ \E i \in 1..Len(answers) : answers[i] = "music" /\ ~all_episodes[i].has_transcript
    /\ \E i \in 1..Len(answers) : answers[i] = "absent"
    /\ \E i \in 1..Len(answers) : answers[i] = "blocked"

\* C7: get_recent_videos returns at most max_per_channel videos, and they are
\* the first entries of the page, in page order, that pass the filter.
KeepsAtMostCap ==
    (page # NoPage) =>
        /\ Len(videos) <= max_per_channel
        /\ VideoIds(videos)
             = VideoIds(Take(SelectSeq(page.items, PassesFilter), max_per_channel))

\* C8: every kept video was published within [now - days, now], as instants.
KeptWithinWindow ==
    \A i \in 1..Len(videos) :
        LET instant == videos[i].published_at.wall - videos[i].published_at.off
        IN  /\ NowUTC - days_back * HoursPerDay <= instant
            /\ instant <= NowUTC

\* the (podcast, video) pairs of the result, in order
EpisodeKeys ==
    [i \in 1..Len(all_episodes) |-> <<all_episodes[i].podcast, all_episodes[i].video_id>>]

\* the pairs owed for the channels of h: one per kept video of each channel
\* that was listed, channel by channel
RECURSIVE OwedKeys(_)
OwedKeys(h) ==
    IF h = <<>> THEN <<>>
    ELSE LET c == h[1]
         IN  (IF c.status = "listed"
              THEN [j \in 1..Len(c.kept) |-> <<c.name, c.kept[j]>>]
              ELSE <<>>) \o OwedKeys(Tail(h))

\* C9: the fetch never aborts early: when it returns, every configured channel
\* has been processed, in order, and the result holds one record per kept video
\* of each channel that did not fail, channel order and provider order kept.
NeverAbortsEarly ==
    (pc = "done") =>
        /\ Len(history) = Len(CHANNELS)
        /\ \A i \in 1..Len(history) : history[i].name = CHANNELS[i].name
        /\ EpisodeKeys = OwedKeys(history)
        /\ Len(answers) = Len(all_episodes)

\* C9 witness: the first channel failed, the second was listed with two kept
\* videos, and a transcript request of the second raised a provider error.
NeverAbortsWitness ==
    /\ pc = "done"
    /\ Len(history) = 2
    /\ history[1].status \in {"no_channel", "no_playlist", "listing_error"}
    /\ history[2].status = "listed"
    /\ Len(history[2].kept) = 2
    /\ Len(all_episodes) = 2
    /\ answers[1] = "blocked"

(* ------------------------------------------------------------------ *)
(* Properties of the Chunker (specification SpecChunk)                 *)
(* ------------------------------------------------------------------ *)
\* the input episodes, by video id
InputIds == {episodes[i].video_id : i \in 1..Len(episodes)}
InputEpisode(id) == episodes[CHOOSE i \in 1..Len(episodes) : episodes[i].video_id = id]
InputLength(id) == StrLen(InputEpisode(id).transcript.str)
HasTranscript(id) == ~InputEpisode(id).transcript.isNone

\* the episode_*_full.json files among a set of names
FullFilesOf(names) == {n \in names : n.stem = "episode_" /\ n.tail = "_full.json"}

\* how often the files the latest run wrote hold the episode `id`
TimesWritten(id) ==
    Cardinality({n \in FullFilesOf(written) : files[n].video_id = id})
    + (IF QuickHitsFile \in written
       THEN Cardinality({i \in 1..Len(files[QuickHitsFile]) : files[QuickHitsFile][i].video_id = id})
       ELSE 0)

WrittenFull == {files[n].video_id : n \in FullFilesOf(written)}
WrittenQuick ==
    IF QuickHitsFile \in written
    THEN {files[QuickHitsFile][i].video_id : i \in 1..Len(files[QuickHitsFile])}
    ELSE {}

\* C1: a run sorts every input episode into exactly one of full (length >=
\* 5000), quick hit (0 < length < 5000) and excluded (no transcript); full and
\* quick hit are disjoint, together they are the episodes that have a
\* transcript, and no episode is written to more than one output file.
ChunkPartition ==
    ran =>
        /\ WrittenFull = {id \in InputIds : HasTranscript(id) /\ InputLength(id) >= 5000}
        /\ WrittenQuick = {id \in InputIds : HasTranscript(id) /\ 0 < InputLength(id)
                                              /\ InputLength(id) < 5000}
        /\ WrittenFull \cap WrittenQuick = {}
        /\ WrittenFull \cup WrittenQuick = {id \in InputIds : HasTranscript(id)}
        /\ \A id \in InputIds : TimesWritten(id) = (IF HasTranscript(id) THEN 1 ELSE 0)

\* C1 witness: a run whose input has a full episode of exactly 5000 characters
\* and a quick hit of 4999.
ChunkPartitionWitness ==
    /\ ran
    /\ \E id \in WrittenFull : InputLength(id) = 5000
    /\ \E id \in WrittenQuick : InputLength(id) = 4999

\* C2: quick_hits_all.json is in the directory only if the input of the latest
\* run had a quick-hit episode.
QuickHitsOnlyIfAny ==
    ran => (QuickHitsFile \in DOMAIN files
              => \E id \in InputIds : HasTranscript(id) /\ 0 < InputLength(id)
                                       /\ InputLength(id) < 5000)

\* C3: after a run, the episode_*_full.json files of the directory are exactly
\* those the run wrote, one per full episode of its input, whatever earlier
\* runs left there.
FullFilesAreThisRuns ==
    ran =>
        /\ FullFilesOf(DOMAIN files) = FullFilesOf(written)
        /\ FullFilesOf(DOMAIN files)
             = {EpisodeFile(i) : i \in 1..Cardinality({id \in InputIds : HasTranscript(id)
                                                          /\ InputLength(id) >= 5000})}

\* C3 witness: a run with one full episode into a directory that an earlier
\* run with another input had filled (its quick-hits file is still there).
FullFilesWitness ==
    /\ ran
    /\ QuickHitsFile \in DOMAIN files \ written
    /\ FullFilesOf(DOMAIN files) = {EpisodeFile(1)}

Run(lo, hi) == [src |-> "transcript", lo |-> lo, hi |-> hi]

\* C4: a full episode of length L > 50000 is written with the transcript
\* first 20000 + marker + [L/2 - 10000, L/2 + 10000) + marker + last 10000 and
\* with transcript_original_length = L; one of length <= 50000 is written with
\* its transcript unchanged.
CondensedAsSpecified ==
    ran =>
        \A n \in FullFilesOf(written) :
            LET id == files[n].video_id
                L == InputLength(id)
            IN  IF L > 50000
                THEN /\ files[n].transcript.str
                          = << Run(0, 20000),
                               Piece("[...MIDDLE SECTION OMITTED...]", 34),
                               Run((L \div 2) - 10000, (L \div 2) + 10000),
                               Piece("[...SECTION OMITTED...]", 27),
                               Run(L - 10000, L) >>
                     /\ "transcript_original_length" \in DOMAIN files[n]
                     /\ files[n].transcript_original_length = L
                ELSE files[n].transcript = InputEpisode(id).transcript

\* C4 witness: a run that wrote a condensed episode and one of exactly 50000
\* characters.
CondensedWitness ==
    /\ ran
    /\ \E n \in FullFilesOf(written) : InputLength(files[n].video_id) = 60001
    /\ \E n \in FullFilesOf(written) : InputLength(files[n].video_id) = 50000

\* the summaries of the metadata record, both lists
Summaries ==
    LET m == files[MetadataFile]
    IN  {m.full_episodes[i] : i \in 1..Len(m.full_episodes)}
        \cup {m.quick_hits[i] : i \in 1..Len(m.quick_hits)}

\* C5: every summary of the metadata record carries the podcast name of the
\* episode record it summarizes.
SummariesCarryPodcast ==
    ran => \A sm \in Summaries : sm.podcast = InputEpisode(sm.url[2]).podcast

\* C10: a condensed transcript is strictly shorter than the original.
CondensedIsShorter ==
    ran =>
        \A n \in FullFilesOf(written) :
            InputLength(files[n].video_id) > 50000
                => StrLen(files[n].transcript.str) < InputLength(files[n].video_id)

====
